---- MODULE Spec2Model ----
(***************************************************************************)
(* Model of app.py: GoogleSearchAPI.search (the paginated retrieval loop)  *)
(* and LinkedInProfileExtractor (the profile field heuristics).            *)
(*                                                                         *)
(* Spec        : one call of GoogleSearchAPI.search, stepped at its        *)
(*               externally visible points (callback, request, sleep).     *)
(* SpecExtract : one call of LinkedInProfileExtractor.extract_profile_info *)
(*               on a raw result drawn from bounded families.              *)
(***************************************************************************)
EXTENDS Integers, Sequences, FiniteSets, TLC

VARIABLES
    pc,             \* position of the search call
    max_pages,      \* argument of search
    delay_seconds,  \* argument of search
    has_callback,   \* progress_callback is not None
    kwargs,         \* passthrough parameters of search
    page,           \* loop variable of search
    all_results,    \* accumulated (tagged) items
    trace,          \* externally visible events of the call, in order
    responses,      \* what the search API answered, one entry per request
    raw,            \* the raw search result handed to the extractor
    out             \* what extract_profile_info produced for raw

vars == <<pc, max_pages, delay_seconds, has_callback, kwargs, page,
          all_results, trace, responses, raw, out>>

(***************************************************************************)
(* Bounds of the model.                                                    *)
(***************************************************************************)
MaxPages == 3
MaxItems == 2
MaxDelay == 1
MaxTitlePieces == 3
Slack == 2

(***************************************************************************)
(* GoogleSearchAPI                                                         *)
(***************************************************************************)
results_per_page == 10

\* Keys a caller passes through **kwargs: the additional search parameters
\* the docstring of search names (lr, gl, hl, ...).
AdditionalKeys == {"lr", "gl"}

KwargsSet == UNION {[ks -> {"x"}] : ks \in SUBSET AdditionalKeys}

\* Faulty variant: the offset of the page after.
StartIndex_mut(p) == p * results_per_page + 1

\* start_index = (page - 1) * self.results_per_page + 1
StartIndex(p) == (p - 1) * results_per_page + 1

\* params = {...}; params.update(kwargs)
BaseParams(start) ==
    [k \in {"key", "cx", "q", "start", "num"} |->
        CASE k = "key" -> "api_key"
          [] k = "cx" -> "search_engine_id"
          [] k = "q" -> "query"
          [] k = "start" -> start
          [] k = "num" -> results_per_page]

DictUpdate(d, upd) ==
    [k \in (DOMAIN d) \cup (DOMAIN upd) |->
        IF k \in DOMAIN upd THEN upd[k] ELSE d[k]]

RequestParams(start, kw) == DictUpdate(BaseParams(start), kw)

\* What one HTTP exchange can turn out to be.
\*   ConnectionError, HTTPError : requests.exceptions.RequestException
\*                                (transport failure, raise_for_status)
\*   JSONDecodeError            : the body is not JSON
\*   RuntimeError               : any other exception raised while requesting
\*   ok                         : a decoded JSON body
\* A decoded body is null, a list or a dict, possibly empty; a non-empty dict
\* may lack "items", and each entry of "items" is a dict or something else
\* (str).
ItemShapes(n) == [1..n -> {"dict", "str"}]

Body(shape, empty, has_items, items) ==
    [shape |-> shape, empty |-> empty, has_items |-> has_items, items |-> items]

NoBody == Body("null", TRUE, FALSE, <<>>)

Bodies ==
    {NoBody,
     Body("list", TRUE, FALSE, <<>>),
     Body("list", FALSE, FALSE, <<>>),
     Body("dict", TRUE, FALSE, <<>>),
     Body("dict", FALSE, FALSE, <<>>)}
    \cup {Body("dict", FALSE, TRUE, its) :
            its \in UNION {ItemShapes(n) : n \in 0..MaxItems}}

FailureKinds == {"ConnectionError", "HTTPError", "JSONDecodeError", "RuntimeError"}

HttpOutcomes ==
    {[kind |-> k, body |-> NoBody] : k \in FailureKinds}
    \cup {[kind |-> "ok", body |-> b] : b \in Bodies}

\* _make_request: RequestException and JSONDecodeError are caught and turned
\* into None; anything else propagates to the caller.
MakeRequest(http) ==
    CASE http.kind \in {"ConnectionError", "HTTPError", "JSONDecodeError"} ->
            [exc |-> "none", ret |-> NoBody]
      [] http.kind = "ok" -> [exc |-> "none", ret |-> http.body]
      [] OTHER -> [exc |-> http.kind, ret |-> NoBody]

\* `not results`: None, an empty list and an empty dict are falsy.
Falsy(body) == body.empty

\* results.get('items', []): only a dict has get.
GetItems(body) ==
    IF body.shape # "dict" THEN [exc |-> "AttributeError", items |-> <<>>]
    ELSE [exc |-> "none", items |-> IF body.has_items THEN body.items ELSE <<>>]

\* for item in items: item['page_number'] = page;
\*                    item['result_index'] = len(all_results) + 1
\* Item assignment on a non-dict raises TypeError.  all_results is not
\* extended inside the loop, so len(all_results) is the same for every item.
TagItems(items, p, n_before) ==
    IF \E i \in 1..Len(items) : items[i] # "dict"
    THEN [exc |-> "TypeError", items |-> <<>>]
    ELSE [exc |-> "none",
          items |-> [i \in 1..Len(items) |->
                        [src_page |-> p, src_pos |-> i,
                         page_number |-> p,
                         result_index |-> n_before + 1]]]

\* Faulty variant: catches only what handling the body can raise.
CaughtBySearch_mut(exc) == exc \in {"AttributeError", "TypeError"}

\* except Exception as e: ... break
CaughtBySearch(exc) == exc \in {"AttributeError", "TypeError", "RuntimeError"}

\* Faulty variant: sleeps for a zero delay too.
ShouldDelay_mut(p, mp, ds) == p < mp /\ ds >= 0

\* if page < max_pages and delay_seconds > 0
ShouldDelay(p, mp, ds) == p < mp /\ ds > 0

\* Events of a call, as the collaborators see them.
Event(ev, p, a, b) == [ev |-> ev, page |-> p, a |-> a, b |-> b]

\* Faulty variant: reports the page about to be fetched as completed.
BeforeProgress_mut(p, mp, n) == Event("progress", p, mp, n)

\* progress_callback(page - 1, max_pages, len(all_results))
BeforeProgress(p, mp, n) == Event("progress", p - 1, mp, n)

\* Faulty variant: reports one item too few.
AfterProgress_mut(p, mp, n) == Event("progress", p, mp, n - 1)

\* progress_callback(page, max_pages, len(all_results))
AfterProgress(p, mp, n) == Event("progress", p, mp, n)

RequestEvent(p, params) == Event("request", p, params["start"], params["num"])
ExtendEvent(p, n, total) == Event("extend", p, n, total)
SleepEvent(p, ds) == Event("sleep", p, ds, 0)

\* search(query, max_pages, delay_seconds, progress_callback, **kwargs):
\* all_results = []; the loop starts at page 1.  max_pages may be zero or
\* negative (an empty range), delay_seconds is a non-negative integer.
Search ==
    /\ pc = "idle"
    /\ \E mp \in (0 - 1)..MaxPages, ds \in 0..MaxDelay, cb \in BOOLEAN, kw \in KwargsSet :
        /\ max_pages' = mp
        /\ delay_seconds' = ds
        /\ has_callback' = cb
        /\ kwargs' = kw
    /\ page' = 1
    /\ all_results' = <<>>
    /\ pc' = "loop"
    /\ UNCHANGED <<trace, responses, raw, out>>

\* for page in range(1, max_pages + 1): the callback before the page, then
\* the request is sent.
LoopHead ==
    /\ pc = "loop"
    /\ page <= max_pages
    /\ trace' = (IF has_callback
                 THEN Append(trace, BeforeProgress(page, max_pages, Len(all_results)))
                 ELSE trace)
                \o <<RequestEvent(page, RequestParams(StartIndex(page), kwargs))>>
    /\ pc' = "request"
    /\ UNCHANGED <<max_pages, delay_seconds, has_callback, kwargs, page,
                   all_results, responses, raw, out>>

\* The range is exhausted: log and return all_results.
LoopExit ==
    /\ pc = "loop"
    /\ page > max_pages
    /\ pc' = "returned"
    /\ UNCHANGED <<max_pages, delay_seconds, has_callback, kwargs, page,
                   all_results, trace, responses, raw, out>>

\* The body of the try block once the exchange is over, for one outcome.
HandleResponse(http) ==
    LET r == MakeRequest(http)
        g == GetItems(r.ret)
        t == TagItems(g.items, page, Len(all_results))
        exc == IF r.exc # "none" THEN r.exc
               ELSE IF Falsy(r.ret) THEN "none"
               ELSE IF g.exc # "none" THEN g.exc
               ELSE IF Len(g.items) = 0 THEN "none"
               ELSE t.exc
        stop == r.exc # "none" \/ Falsy(r.ret) \/ g.exc # "none"
                \/ Len(g.items) = 0 \/ t.exc # "none"
    IN  /\ responses' = Append(responses, http)
        /\ IF stop
           THEN /\ pc' = IF exc = "none" \/ CaughtBySearch(exc)
                         THEN "returned" ELSE "raised"
                /\ UNCHANGED <<all_results, trace>>
           ELSE /\ all_results' = all_results \o t.items
                /\ trace' = Append(trace,
                                ExtendEvent(page, Len(t.items), Len(all_results')))
                /\ pc' = IF ShouldDelay(page, max_pages, delay_seconds)
                         THEN "delay" ELSE "after"
        /\ UNCHANGED <<max_pages, delay_seconds, has_callback, kwargs, page,
                       raw, out>>

Response ==
    /\ pc = "request"
    /\ \E http \in HttpOutcomes : HandleResponse(http)

\* time.sleep(delay_seconds)
Sleep ==
    /\ pc = "delay"
    /\ trace' = Append(trace, SleepEvent(page, delay_seconds))
    /\ pc' = "after"
    /\ UNCHANGED <<max_pages, delay_seconds, has_callback, kwargs, page,
                   all_results, responses, raw, out>>

\* The callback after the page; the loop advances.
AfterPage ==
    /\ pc = "after"
    /\ trace' = IF has_callback
                THEN Append(trace, AfterProgress(page, max_pages, Len(all_results)))
                ELSE trace
    /\ page' = page + 1
    /\ pc' = "loop"
    /\ UNCHANGED <<max_pages, delay_seconds, has_callback, kwargs,
                   all_results, responses, raw, out>>

(***************************************************************************)
(* Python values and string operations used by the extractor.              *)
(* A str is a sequence of one-character strings.                           *)
(***************************************************************************)
Chars(str) == [i \in 1..Len(str) |-> SubSeq(str, i, i)]

\* U+00B7, one character
MIDDOT == "middot"

Whitespace == {" ", "\t", "\n"}

PyNone == [t |-> "none", v |-> <<>>]
PyStr(s) == [t |-> "str", v |-> s]
PyInt(n) == [t |-> "int", v |-> <<n>>]
PyList(l) == [t |-> "list", v |-> l]
PyDict(d) == [t |-> "dict", v |-> d]
EmptyDict == [k \in {} |-> PyNone]

Ok(val) == [exc |-> "none", val |-> val]
Raise(e) == [exc |-> e, val |-> PyNone]

\* bool(x)
Truthy(x) ==
    CASE x.t = "none" -> FALSE
      [] x.t = "int" -> x.v[1] # 0
      [] x.t = "dict" -> DOMAIN x.v # {}
      [] OTHER -> Len(x.v) > 0

\* d.get(k, default) on a dict
DictGet(d, k, default) == IF k \in DOMAIN d THEN d[k] ELSE default

SetMin(S) == CHOOSE x \in S : \A y \in S : x <= y
SetMax(S) == 0 - SetMin({0 - x : x \in S})

StartsWithAt(s, i, pat) ==
    /\ i + Len(pat) - 1 <= Len(s)
    /\ \A k \in 1..Len(pat) : s[i + k - 1] = pat[k]

\* pat in s
Contains(s, pat) == \E i \in 1..(Len(s) - Len(pat) + 1) : StartsWithAt(s, i, pat)

\* s.find(pat, i), 1-based; 0 when absent
Find(s, i, pat) ==
    LET hits == {j \in i..(Len(s) - Len(pat) + 1) : StartsWithAt(s, j, pat)}
    IN  IF hits = {} THEN 0 ELSE SetMin(hits)

\* s.replace(old, new): left to right, non-overlapping
RECURSIVE ReplaceFrom(_, _, _, _)
ReplaceFrom(s, i, old, new) ==
    LET j == Find(s, i, old)
    IN  IF j = 0 THEN SubSeq(s, i, Len(s))
        ELSE SubSeq(s, i, j - 1) \o new \o ReplaceFrom(s, j + Len(old), old, new)

Replace(s, old, new) == ReplaceFrom(s, 1, old, new)

\* s.split(sep)
RECURSIVE SplitFrom(_, _, _)
SplitFrom(s, i, sep) ==
    LET j == Find(s, i, sep)
    IN  IF j = 0 THEN <<SubSeq(s, i, Len(s))>>
        ELSE <<SubSeq(s, i, j - 1)>> \o SplitFrom(s, j + Len(sep), sep)

Split(s, sep) == SplitFrom(s, 1, sep)

\* s.split(): the maximal runs of non-whitespace
RECURSIVE WordsFrom(_, _)
WordsFrom(s, i) ==
    LET starts == {j \in i..Len(s) : s[j] \notin Whitespace}
    IN  IF starts = {} THEN <<>>
        ELSE LET b == SetMin(starts)
                 ends == {j \in b..Len(s) : s[j] \in Whitespace}
                 e == IF ends = {} THEN Len(s) + 1 ELSE SetMin(ends)
             IN  <<SubSeq(s, b, e - 1)>> \o WordsFrom(s, e)

SplitWhitespace(s) == WordsFrom(s, 1)

\* sep.join(parts)
RECURSIVE Join(_, _)
Join(sep, parts) ==
    IF Len(parts) = 0 THEN <<>>
    ELSE IF Len(parts) = 1 THEN parts[1]
    ELSE parts[1] \o sep \o Join(sep, Tail(parts))

\* s.strip()
Strip(s) ==
    LET keep == {i \in 1..Len(s) : s[i] \notin Whitespace}
    IN  IF keep = {} THEN <<>> ELSE SubSeq(s, SetMin(keep), SetMax(keep))

UpperLetters == Chars("ABCDEFGHIJKLMNOPQRSTUVWXYZ")
LowerLetters == Chars("abcdefghijklmnopqrstuvwxyz")

LowerChar(c) ==
    LET hit == {i \in 1..Len(UpperLetters) : UpperLetters[i] = c}
    IN  IF hit = {} THEN c ELSE LowerLetters[SetMin(hit)]

\* s.lower()
Lower(s) == [i \in 1..Len(s) |-> LowerChar(s[i])]

(***************************************************************************)
(* LinkedInProfileExtractor                                                *)
(***************************************************************************)
NA == Chars("N/A")
LinkedInSuffix == Chars(" | LinkedIn")
TitleDelim == Chars(" - ")
SnippetDelim == <<" ", MIDDOT, " ">>

\* re.sub(r'^(Dr\.?|Mr\.?|Ms\.?|Mrs\.?)\s+', '', name)
Honorifics == <<Chars("Dr"), Chars("Mr"), Chars("Ms"), Chars("Mrs")>>

HonorificMatchLen(name, h) ==
    LET dot == IF StartsWithAt(name, Len(h) + 1, <<".">>) THEN 1 ELSE 0
        body(d) == Len(h) + d
        wsrun(d) == {n \in 1..(Len(name) - body(d)) :
                        \A k \in 1..n : name[body(d) + k] \in Whitespace}
        len(d) == IF ~StartsWithAt(name, 1, h) \/ wsrun(d) = {} THEN 0
                  ELSE body(d) + SetMax(wsrun(d))
    IN  IF len(dot) > 0 THEN len(dot) ELSE len(0)

StripHonorific(name) ==
    LET hits == {i \in 1..Len(Honorifics) : HonorificMatchLen(name, Honorifics[i]) > 0}
    IN  IF hits = {} THEN name
        ELSE SubSeq(name, HonorificMatchLen(name, Honorifics[SetMin(hits)]) + 1, Len(name))

\* _extract_name_from_title
ExtractNameFromTitle(title) ==
    IF ~Truthy(title) THEN Ok(PyStr(NA))
    ELSE IF title.t # "str" THEN Raise("AttributeError")
    ELSE LET parts == Split(Replace(title.v, LinkedInSuffix, <<>>), TitleDelim)
         IN  Ok(PyStr(StripHonorific(Strip(parts[1]))))

Keywords ==
    <<Chars("manager"), Chars("director"), Chars("engineer"), Chars("analyst"),
      Chars("specialist"), Chars("coordinator"), Chars("executive"),
      Chars("consultant"), Chars("senior"), Chars("lead")>>

\* any(keyword in line.lower() for keyword in [...])
HasKeyword(line) ==
    LET low == Lower(line)
    IN  \E k \in 1..Len(Keywords) : Contains(low, Keywords[k])

\* `" - " in title`
DelimInTitle(title) ==
    CASE title.t = "str" -> [exc |-> "none", truth |-> Contains(title.v, TitleDelim)]
      [] title.t = "list" ->
            [exc |-> "none",
             truth |-> \E i \in 1..Len(title.v) : title.v[i] = PyStr(TitleDelim)]
      [] title.t = "dict" -> [exc |-> "none", truth |-> " - " \in DOMAIN title.v]
      [] OTHER -> [exc |-> "TypeError", truth |-> FALSE]

\* The part of _extract_title_from_content that reads the title:
\* parts = title.split(" - "); parts[1].replace(" | LinkedIn", "").strip()
TitleFromTitle(title) == Strip(Replace(Split(title, TitleDelim)[2], LinkedInSuffix, <<>>))

\* The part of _extract_title_from_content that reads the snippet.
TitleFromSnippet(snippet) ==
    LET lines == Split(snippet, SnippetDelim)
        hits == {i \in 1..Len(lines) : HasKeyword(Strip(lines[i]))}
        first_line == IF Len(snippet) > 0 THEN Strip(Split(snippet, <<".">>)[1])
                      ELSE <<>>
    IN  IF hits # {} THEN Strip(lines[SetMin(hits)])
        ELSE IF Len(first_line) > 0 THEN first_line
        ELSE NA

\* _extract_title_from_content
ExtractTitleFromContent(title, snippet) ==
    LET c == DelimInTitle(title)
    IN  IF c.exc # "none" THEN Raise(c.exc)
        ELSE IF c.truth /\ title.t # "str" THEN Raise("AttributeError")
        ELSE IF c.truth /\ Len(TitleFromTitle(title.v)) > 0
             THEN Ok(PyStr(TitleFromTitle(title.v)))
        ELSE IF snippet.t # "str" THEN Raise("AttributeError")
        ELSE Ok(PyStr(TitleFromSnippet(snippet.v)))

\* `key in x`
PyIn(key, x) ==
    CASE x.t = "str" -> [exc |-> "none", truth |-> Contains(x.v, Chars(key))]
      [] x.t = "list" ->
            [exc |-> "none",
             truth |-> \E i \in 1..Len(x.v) : x.v[i] = PyStr(Chars(key))]
      [] x.t = "dict" -> [exc |-> "none", truth |-> key \in DOMAIN x.v]
      [] OTHER -> [exc |-> "TypeError", truth |-> FALSE]

\* x[key], key a str
PyItem(x, key) ==
    CASE x.t = "dict" -> IF key \in DOMAIN x.v THEN Ok(x.v[key]) ELSE Raise("KeyError")
      [] OTHER -> Raise("TypeError")

\* x[0]
PyFirst(x) ==
    CASE x.t = "list" -> IF Len(x.v) > 0 THEN Ok(x.v[1]) ELSE Raise("IndexError")
      [] x.t = "str" -> IF Len(x.v) > 0 THEN Ok(PyStr(<<x.v[1]>>)) ELSE Raise("IndexError")
      [] x.t = "dict" -> Raise("KeyError")
      [] OTHER -> Raise("TypeError")

\* x.get(key, default): only a dict has get
PyGet(x, key, default) ==
    IF x.t = "dict" THEN Ok(DictGet(x.v, key, default)) ELSE Raise("AttributeError")

\* if key in pagemap and pagemap[key]: return pagemap[key][0].get(field, '')
\* taken: the return statement was reached, or an exception was raised.
ImageFrom(pagemap, key, field) ==
    LET c == PyIn(key, pagemap)
        item == PyItem(pagemap, key)
        first == PyFirst(item.val)
        got == PyGet(first.val, field, PyStr(<<>>))
    IN  IF c.exc # "none" THEN [taken |-> TRUE, exc |-> c.exc, val |-> PyNone]
        ELSE IF ~c.truth THEN [taken |-> FALSE, exc |-> "none", val |-> PyNone]
        ELSE IF item.exc # "none" THEN [taken |-> TRUE, exc |-> item.exc, val |-> PyNone]
        ELSE IF ~Truthy(item.val) THEN [taken |-> FALSE, exc |-> "none", val |-> PyNone]
        ELSE IF first.exc # "none" THEN [taken |-> TRUE, exc |-> first.exc, val |-> PyNone]
        ELSE [taken |-> TRUE, exc |-> got.exc, val |-> got.val]

\* except (KeyError, IndexError, TypeError): pass
CaughtByImage(exc) == exc \in {"KeyError", "IndexError", "TypeError"}

\* _extract_image_url
ExtractImageUrl(search_result) ==
    LET pagemap == DictGet(search_result, "pagemap", PyDict(EmptyDict))
        a == ImageFrom(pagemap, "cse_image", "src")
        b == ImageFrom(pagemap, "metatags", "og:image")
        r == IF a.taken THEN a ELSE b
    IN  IF ~r.taken \/ CaughtByImage(r.exc) THEN Ok(PyStr(<<>>))
        ELSE [exc |-> r.exc, val |-> r.val]

DescLimit == 300
Ellipsis == Chars("...")

\* Faulty variant: cuts one character short.
Truncate_mut(s) ==
    IF Len(s) > DescLimit THEN SubSeq(s, 1, DescLimit - 1) \o Ellipsis ELSE s

\* if len(snippet) > 300: snippet = snippet[:300] + "..."
Truncate(s) ==
    IF Len(s) > DescLimit THEN SubSeq(s, 1, DescLimit) \o Ellipsis ELSE s

\* _clean_description
CleanDescription(snippet) ==
    IF ~Truthy(snippet) THEN Ok(PyStr(NA))
    ELSE IF snippet.t # "str" THEN Raise("AttributeError")
    ELSE LET s1 == Replace(Replace(snippet.v, Chars("&amp;"), <<"&">>),
                           Chars("&nbsp;"), <<" ">>)
             s2 == Join(<<" ">>, SplitWhitespace(s1))
         IN  Ok(PyStr(Truncate(s2)))

NoProfile == [k \in {} |-> PyNone]

\* extract_profile_info: the first exception of a helper ends the call.
ExtractProfileInfo(search_result) ==
    LET title_text == DictGet(search_result, "title", PyStr(<<>>))
        snippet == DictGet(search_result, "snippet", PyStr(<<>>))
        name == ExtractNameFromTitle(title_text)
        professional_title == ExtractTitleFromContent(title_text, snippet)
        image_url == ExtractImageUrl(search_result)
        description == CleanDescription(snippet)
    IN  IF name.exc # "none" THEN [exc |-> name.exc, profile |-> NoProfile]
        ELSE IF professional_title.exc # "none"
             THEN [exc |-> professional_title.exc, profile |-> NoProfile]
        ELSE IF image_url.exc # "none" THEN [exc |-> image_url.exc, profile |-> NoProfile]
        ELSE IF description.exc # "none"
             THEN [exc |-> description.exc, profile |-> NoProfile]
        ELSE [exc |-> "none",
              profile |-> [name |-> name.val,
                           title |-> professional_title.val,
                           link |-> DictGet(search_result, "link", PyStr(<<>>)),
                           description |-> description.val,
                           image |-> image_url.val]]

(***************************************************************************)
(* Raw search results handed to the extractor.                             *)
(***************************************************************************)
Missing == [t |-> "missing", v |-> <<>>]

\* A raw result with the given fields; a Missing field is an absent key.
MkDict(fields) ==
    [k \in {x \in DOMAIN fields : fields[x] # Missing} |-> fields[k]]

MkRaw(title, snippet, link, pagemap) ==
    MkDict([title |-> title, snippet |-> snippet, link |-> link, pagemap |-> pagemap])

Rep(c, n) == [i \in 1..n |-> c]

\* Titles: up to MaxTitlePieces pieces, in any order.
TitlePieces ==
    <<Chars("Dr. "), Chars("Jane"), TitleDelim, Chars("Eng"), LinkedInSuffix, <<" ">>>>

TitleStrings ==
    {Join(<<>>, [i \in DOMAIN f |-> TitlePieces[f[i]]]) :
        f \in UNION {[1..n -> 1..Len(TitlePieces)] : n \in 0..MaxTitlePieces}}

ShortSnippets ==
    {<<>>,
     Chars("Hi") \o SnippetDelim \o Chars("Team Lead") \o SnippetDelim \o Chars("Acme"),
     Chars(" Works at Acme. Since 2020"),
     Chars(". ")}

TitleCases ==
    {MkRaw(PyStr(t), PyStr(sn), PyStr(Chars("http://l")), Missing) :
        t \in TitleStrings, sn \in ShortSnippets}

\* Snippets: a short head, an interior piece, a filler whose length is near
\* zero or near the description limit, and a closing piece.
SnippetPieces ==
    {<<>>, <<" ">>, <<" ", " ">>, <<"\t", " ">>, Chars("&amp;"), Chars("&nbsp;"),
     Chars("&amp;nbsp;")}

FillLens == (0..Slack) \cup ((DescLimit - 4 * Slack)..(DescLimit + Slack))

LongSnippets ==
    {lead \o Chars("ab") \o p1 \o Rep("c", n) \o p2 :
        lead \in {<<>>, <<" ">>}, p1 \in SnippetPieces, p2 \in SnippetPieces,
        n \in FillLens}

SnippetCases ==
    {MkRaw(Missing, PyStr(sn), Missing, Missing) : sn \in LongSnippets \cup {<<>>}}

\* Fields that are missing, null or of the wrong shape.
FieldShapes ==
    {Missing, PyNone, PyStr(<<>>), PyStr(Chars("Jane - Eng")), PyStr(Chars("Lead")),
     PyInt(0), PyInt(5), PyList(<<>>), PyList(<<PyStr(TitleDelim)>>), PyDict(EmptyDict)}

LinkShapes == {Missing, PyNone, PyStr(Chars("http://l")), PyInt(5)}

ShapeCases ==
    {MkRaw(t, sn, l, Missing) : t \in FieldShapes, sn \in FieldShapes, l \in LinkShapes}

\* pagemap: missing, not a mapping, or a mapping whose cse_image and
\* metatags entries are missing, well-formed or of the wrong shape.
Url1 == Chars("http://x/y.jpg")
Url2 == Chars("http://a/b.png")
Url3 == Chars("http://z")

Entry(key, val) == PyDict([k \in {key} |-> val])

CseShapes ==
    {Missing, PyNone, PyInt(5), PyStr(Chars("src")), PyDict(EmptyDict),
     Entry("src", PyStr(Url1)),
     PyList(<<>>),
     PyList(<<PyDict(EmptyDict)>>),
     PyList(<<Entry("src", PyStr(<<>>))>>),
     PyList(<<Entry("src", PyStr(Url1))>>),
     PyList(<<Entry("src", PyStr(Url1)), Entry("src", PyStr(Url3))>>),
     PyList(<<Entry("src", PyNone)>>),
     PyList(<<PyStr(Url1)>>),
     PyList(<<PyNone>>)}

MetaShapes ==
    {Missing, PyNone, PyInt(5),
     PyList(<<>>),
     PyList(<<PyDict(EmptyDict)>>),
     PyList(<<Entry("og:image", PyStr(<<>>))>>),
     PyList(<<Entry("og:image", PyStr(Url2))>>),
     PyList(<<Entry("og:image", PyNone)>>),
     PyList(<<PyStr(Url2)>>)}

PagemapShapes ==
    {PyNone, PyInt(5), PyStr(Chars("cse_image")), PyStr(Chars("x")),
     PyList(<<PyStr(Chars("cse_image"))>>), PyList(<<>>)}
    \cup {PyDict(MkDict([cse_image |-> c, metatags |-> m])) :
            c \in CseShapes, m \in MetaShapes}

ImageCases ==
    {MkRaw(PyStr(Chars("Jane Doe - Senior Engineer | LinkedIn")),
           PyStr(Chars("Hi")), PyStr(Chars("http://l")), pm) : pm \in PagemapShapes}

NotRun == [done |-> FALSE, exc |-> "none", profile |-> NoProfile]

InitExtract ==
    /\ pc = "idle"
    /\ max_pages = 0
    /\ delay_seconds = 0
    /\ has_callback = FALSE
    /\ kwargs = <<>>
    /\ page = 0
    /\ all_results = <<>>
    /\ trace = <<>>
    /\ responses = <<>>
    /\ \/ raw \in TitleCases
       \/ raw \in SnippetCases
       \/ raw \in ShapeCases
       \/ raw \in ImageCases
    /\ out = NotRun

\* profile_info = LinkedInProfileExtractor.extract_profile_info(result)
Extract ==
    /\ ~out.done
    /\ LET r == ExtractProfileInfo(raw)
       IN  out' = [done |-> TRUE, exc |-> r.exc, profile |-> r.profile]
    /\ UNCHANGED <<pc, max_pages, delay_seconds, has_callback, kwargs, page,
                   all_results, trace, responses, raw>>

NextExtract == Extract

SpecExtract == InitExtract /\ [][NextExtract]_vars

Init ==
    /\ pc = "idle"
    /\ max_pages = 0
    /\ delay_seconds = 0
    /\ has_callback = FALSE
    /\ kwargs = <<>>
    /\ page = 0
    /\ all_results = <<>>
    /\ trace = <<>>
    /\ responses = <<>>
    /\ raw = EmptyDict
    /\ out = NotRun

Next ==
    \/ Search
    \/ LoopHead
    \/ LoopExit
    \/ Response
    \/ Sleep
    \/ AfterPage

Spec == Init /\ [][Next]_vars

\* The single flow of control always takes its next step: a request is
\* answered or fails within its timeout, a sleep elapses, a callback returns.
LiveSpec == Spec /\ WF_vars(Next)

(***************************************************************************)
(* Vocabulary of the claims about search.                                  *)
(***************************************************************************)
EventsOf(kind) == SelectSeq(trace, LAMBDA e : e.ev = kind)

\* The page answered with at least one item, all of them usable.
GoodPage(http) ==
    /\ http.kind = "ok"
    /\ http.body.shape = "dict"
    /\ http.body.has_items
    /\ Len(http.body.items) >= 1
    /\ \A i \in 1..Len(http.body.items) : http.body.items[i] = "dict"

\* The page answered, and the answer holds zero items.
EmptyPage(http) ==
    /\ http.kind = "ok"
    /\ http.body.shape = "dict"
    /\ Len(http.body.items) = 0

\* The request failed: transport error, non-2xx status, undecodable body,
\* or an answer that cannot be handled.
FailedPage(http) == ~GoodPage(http) /\ ~EmptyPage(http)

\* The items of pages 1..k, in page order and in item order within a page.
RECURSIVE ItemsOfPages(_)
ItemsOfPages(k) ==
    IF k = 0 THEN <<>>
    ELSE ItemsOfPages(k - 1)
         \o [i \in 1..Len(responses[k].body.items) |-> <<k, i>>]

ReturnedItems ==
    [j \in 1..Len(all_results) |-> <<all_results[j].src_page, all_results[j].src_pos>>]

RequestedPages == [k \in 1..Len(EventsOf("request")) |-> EventsOf("request")[k].page]

LastOf(seq) == seq[Len(seq)]

\* C1: when the request for page p fails, search does not raise, returns
\* exactly the items of pages 1..p-1 in order, and has requested pages
\* 1..p once each and nothing after p.
C1_FailureStopsQuietly ==
    /\ pc # "raised"
    /\ \A p \in 1..Len(responses) :
        FailedPage(responses[p]) =>
            /\ p = Len(responses)
            /\ pc = "returned"
            /\ ReturnedItems = ItemsOfPages(p - 1)
            /\ RequestedPages = [k \in 1..p |-> k]

C1_Witness ==
    /\ pc = "returned"
    /\ Len(responses) = 3
    /\ responses[3].kind = "RuntimeError"
    /\ Len(all_results) = 3

\* C2: when pages 1..k return items and page k+1 answers with zero items,
\* search stops after the request for page k+1, returns exactly the items
\* of pages 1..k, requests nothing further, and the last progress callback
\* of the run reports pagesCompleted = k.
C2_EmptyPageStops ==
    \A k \in 0..Len(responses) - 1 :
        EmptyPage(responses[k + 1]) =>
            /\ k + 1 = Len(responses)
            /\ pc = "returned"
            /\ ReturnedItems = ItemsOfPages(k)
            /\ RequestedPages = [q \in 1..k + 1 |-> q]
            /\ has_callback =>
                /\ LastOf(EventsOf("progress")).page = k
                /\ LastOf(EventsOf("progress")).b = Len(all_results)

C2_Witness ==
    /\ pc = "returned"
    /\ max_pages = 3
    /\ has_callback
    /\ Len(responses) = 2
    /\ EmptyPage(responses[2])
    /\ Len(all_results) = 2
    /\ LastOf(EventsOf("progress")).page = 1

\* C3: every returned item carries the page it was fetched on, and the j-th
\* returned item has result_index = j.
C3_RunningResultIndex ==
    \A j \in 1..Len(all_results) :
        /\ all_results[j].page_number = all_results[j].src_page
        /\ all_results[j].result_index = j

\* C4 as stated: for a page p that returned items, callback(p-1), request,
\* append, callback(p), and only then the delay.
C4_CallbackBeforeDelay ==
    has_callback =>
        \A i \in 1..Len(trace) :
            trace[i].ev = "extend" =>
                /\ i >= 3
                /\ trace[i - 2] = Event("progress", trace[i].page - 1, max_pages,
                                        trace[i].b - trace[i].a)
                /\ trace[i - 1].ev = "request" /\ trace[i - 1].page = trace[i].page
                /\ i + 1 <= Len(trace) =>
                    trace[i + 1] = Event("progress", trace[i].page, max_pages, trace[i].b)

\* C4 as amended: for a page p that returned items, callback(p-1), request,
\* append, then the delay when p < max_pages and delay_seconds > 0, and only
\* then callback(p, max_pages, items after page p); the loop does not go on
\* to page p+1 without it.
C4_DelayBeforeCallback ==
    has_callback =>
        \A i \in 1..Len(trace) :
            trace[i].ev = "extend" =>
                LET p == trace[i].page
                    delayed == p < max_pages /\ delay_seconds > 0
                    j == IF delayed THEN i + 2 ELSE i + 1
                IN  /\ i >= 3
                    /\ trace[i - 2] = Event("progress", p - 1, max_pages,
                                            trace[i].b - trace[i].a)
                    /\ trace[i - 1].ev = "request" /\ trace[i - 1].page = p
                    /\ trace[i].a >= 1
                    /\ (delayed /\ i + 1 <= Len(trace)) =>
                            trace[i + 1] = Event("sleep", p, delay_seconds, 0)
                    /\ j <= Len(trace) =>
                            trace[j] = Event("progress", p, max_pages, trace[i].b)
                    /\ (page > p \/ pc = "returned") => j <= Len(trace)

C4_Witness ==
    /\ has_callback
    /\ \E i \in 1..Len(trace) - 2 :
        /\ trace[i].ev = "extend"
        /\ trace[i + 1].ev = "sleep"
        /\ trace[i + 2].ev = "progress"
        /\ trace[i + 2].page = trace[i].page

\* C5: search sleeps after page p only when page p returned items,
\* p < max_pages and delay_seconds > 0; never with delay_seconds = 0, never
\* after the last page, never after a page that ended pagination, at most
\* once per page and so at most max_pages - 1 times in a run.
C5_SleepOnlyBetweenPages ==
    LET sleeps == EventsOf("sleep")
    IN  /\ (pc = "delay") => (delay_seconds > 0 /\ page < max_pages
                              /\ GoodPage(responses[page]))
        /\ \A i \in 1..Len(trace) :
            trace[i].ev = "sleep" =>
                /\ delay_seconds > 0
                /\ trace[i].a = delay_seconds
                /\ trace[i].page < max_pages
                /\ i > 1
                /\ trace[i - 1].ev = "extend"
                /\ trace[i - 1].page = trace[i].page
                /\ trace[i - 1].a >= 1
                /\ GoodPage(responses[trace[i].page])
        /\ \A k \in 1..Len(sleeps) : sleeps[k].page = k
        /\ delay_seconds = 0 => Len(sleeps) = 0
        /\ max_pages >= 1 => Len(sleeps) <= max_pages - 1
        /\ max_pages <= 0 => Len(sleeps) = 0

C5_Witness ==
    /\ pc = "returned"
    /\ max_pages = 3
    /\ Len(EventsOf("sleep")) = 2
    /\ Len(responses) = 3

\* The safety part of C10, as a state predicate.
C10_RequestsInOrder ==
    LET reqs == EventsOf("request")
    IN  /\ \A k \in 1..Len(reqs) :
            /\ reqs[k].page = k
            /\ reqs[k].a = (k - 1) * 10 + 1
            /\ reqs[k].b = 10
            /\ k >= 2 => /\ GoodPage(responses[k - 1])
                         /\ \E i, j \in 1..Len(trace) :
                                /\ i < j
                                /\ trace[i].ev = "extend" /\ trace[i].page = k - 1
                                /\ trace[i].a >= 1
                                /\ trace[j] = reqs[k]
        /\ Len(reqs) <= (IF max_pages >= 0 THEN max_pages ELSE 0)
        /\ Len(reqs) - Len(responses) = (IF pc = "request" THEN 1 ELSE 0)

ProfileFields == {"name", "title", "link", "description", "image"}

RawField(key) == DictGet(raw, key, PyStr(<<>>))

IsStr(x) == x.t = "str"

\* C6: extract_profile_info never fails: for every raw result it returns a
\* Profile with exactly the five fields, each a non-null string.
C6_ExtractNeverFails ==
    out.done =>
        /\ out.exc = "none"
        /\ DOMAIN out.profile = ProfileFields
        /\ \A f \in ProfileFields : IsStr(out.profile[f])

\* A pagemap of the documented shape: a mapping whose cse_image and
\* metatags, when present, are lists of mappings with string values.
ListOfStrDicts(x, field) ==
    /\ x.t = "list"
    /\ \A i \in 1..Len(x.v) :
        /\ x.v[i].t = "dict"
        /\ DOMAIN x.v[i].v \subseteq {field}
        /\ \A k \in DOMAIN x.v[i].v : IsStr(x.v[i].v[k])

WellShapedPagemap ==
    /\ "pagemap" \in DOMAIN raw
    /\ raw["pagemap"].t = "dict"
    /\ "cse_image" \in DOMAIN raw["pagemap"].v =>
            ListOfStrDicts(raw["pagemap"].v["cse_image"], "src")
    /\ "metatags" \in DOMAIN raw["pagemap"].v =>
            ListOfStrDicts(raw["pagemap"].v["metatags"], "og:image")

\* The value of pagemap[key][0][field], or Missing.
FirstEntryField(key, field) ==
    LET pm == raw["pagemap"].v
    IN  IF key \in DOMAIN pm /\ Len(pm[key].v) >= 1 /\ field \in DOMAIN pm[key].v[1].v
        THEN pm[key].v[1].v[field]
        ELSE Missing

PreferredImage ==
    LET src == FirstEntryField("cse_image", "src")
        og == FirstEntryField("metatags", "og:image")
    IN  IF src # Missing /\ Len(src.v) > 0 THEN src
        ELSE IF og # Missing THEN og
        ELSE PyStr(<<>>)

\* C7: image is cse_image[0].src when present and non-empty, otherwise
\* metatags[0]['og:image'] when present, otherwise the empty string.
C7_ImagePreferenceOrder ==
    (out.done /\ WellShapedPagemap) =>
        /\ out.exc = "none"
        /\ out.profile["image"] = PreferredImage

\* Everything after the first " - " of the title, suffix removed, trimmed.
AfterFirstDelim(title) ==
    Strip(Replace(SubSeq(title, Find(title, 1, TitleDelim) + Len(TitleDelim), Len(title)),
                  LinkedInSuffix, <<>>))

\* C8: for a title containing " - ", the title field is everything after
\* the first " - " (later delimiters included), suffix stripped and
\* trimmed, whenever that text is non-empty.
C8_TitleIsEverythingAfterFirstDelim ==
    (/\ out.done
     /\ out.exc = "none"
     /\ IsStr(RawField("title"))
     /\ Contains(RawField("title").v, TitleDelim)
     /\ Len(AfterFirstDelim(RawField("title").v)) > 0)
    => out.profile["title"] = PyStr(AfterFirstDelim(RawField("title").v))

\* The cleaned snippet: entities replaced, every whitespace run between two
\* words turned into one space, leading and trailing whitespace dropped.
Collapsed(s) ==
    LET words == {i \in 1..Len(s) : s[i] \notin Whitespace}
        last == IF words = {} THEN 0 ELSE SetMax(words)
        mark == [i \in 1..Len(s) |->
                    IF s[i] \notin Whitespace THEN s[i]
                    ELSE IF i > 1 /\ i < last /\ s[i - 1] \notin Whitespace THEN " "
                    ELSE "drop"]
    IN  SelectSeq(mark, LAMBDA c : c # "drop")

Cleaned(s) ==
    Collapsed(Replace(Replace(s, Chars("&amp;"), <<"&">>), Chars("&nbsp;"), <<" ">>))

DescriptionOk(long) ==
    LET snippet == RawField("snippet").v
        desc == out.profile["description"].v
    IN  /\ long => /\ Len(desc) = 303
                   /\ desc = SubSeq(Cleaned(snippet), 1, 300) \o Chars("...")
        /\ Len(desc) <= 303
        /\ Len(snippet) = 0 => desc = Chars("N/A")

\* C9 as stated: for every raw snippet longer than 300 characters the
\* description has length exactly 303 and is the first 300 characters of
\* the cleaned snippet followed by "..."; no description exceeds 303
\* characters; an empty snippet yields "N/A".
C9_RawLongerThanLimit ==
    (out.done /\ out.exc = "none" /\ IsStr(RawField("snippet")))
    => DescriptionOk(Len(RawField("snippet").v) > 300)

\* C9 as amended: the same, for every snippet whose cleaned form is longer
\* than 300 characters.
C9_CleanedLongerThanLimit ==
    (out.done /\ out.exc = "none" /\ IsStr(RawField("snippet")))
    => DescriptionOk(Len(Cleaned(RawField("snippet").v)) > 300)

C9_Witness ==
    /\ out.done
    /\ out.exc = "none"
    /\ IsStr(RawField("snippet"))
    /\ Len(Cleaned(RawField("snippet").v)) = 301
    /\ Contains(RawField("snippet").v, Chars("&amp;"))
    /\ Len(out.profile["description"].v) = 303

====
